---- MODULE Spec2Model ----
(***************************************************************************)
(* Model of the XMRT coordinator:                                          *)
(*   - CircularFeedbackSystem (server/services/circular-feedback-system.ts)*)
(*   - XMRTCoordinationService (unnamed/part_000)                          *)
(*                                                                         *)
(* JavaScript runs every piece of code between two awaited I/O operations  *)
(* without interruption, so one action is one such piece: it starts when   *)
(* the awaited operation settles (with the outcome given as the action's   *)
(* input) and runs up to the next awaited I/O operation.                   *)
(***************************************************************************)
EXTENDS Integers, Sequences, FiniteSets, TLC

----------------------------------------------------------------------------
(* Bounds of the model *)

\* opportunities held by the storage collaborator
NumOpps == 2
\* invocations of executeFeedbackCycle that can be in progress at once; each
\* runs one pass of autoConvertOpportunitiesToServices
MaxPasses == 2
\* invocations of executeFeedbackCycle in one behaviour of Spec
MaxCycles == 3
\* invocations of executeFeedbackCycle in one behaviour of LogSpec
MaxLogCycles == 6
\* invocations of executeFeedbackCycle in one behaviour of RunSpec
MaxRunCycles == 2
\* health checks of the coordination service that can be in progress at once
MaxSyncs == 2
\* coordination ticks in one behaviour of BufferSpec
MaxBufferTicks == 14
\* records appended to systemActivities in one behaviour of ActivitySpec
MaxActivityAppends == 104
\* startCoordination calls and coordination ticks in one behaviour of CoordSpec
MaxCoordRuns == 3

OppIds == 1..NumOpps
Passes == 1..MaxPasses

(* Program constants *)

\* the candidate list of analyzeExistingReposForOpportunities
NumCandidates == 8
\* getRepositoryActivities returns the last 20 entries
RepositoryActivityCap == 20
\* sendToPillar keeps the last 50 discussions
DiscussionCap == 50
\* generateSystemActivity keeps the last 100 activities
SystemActivityCap == 100

----------------------------------------------------------------------------
VARIABLES
    opportunities,  \* storage: opportunity id -> [status]
    services,       \* storage: sequence of Service records, in creation order
    pass,           \* pass p -> the state of that invocation of the converter
    storageFailed,  \* history: some storage call has failed
    overlapped,     \* history: a pass was invoked while another was running
    createFailed,   \* history: opportunities whose createService call failed
    flips,          \* history: opp id -> number of detected->converted changes
    detected0,      \* history: the opportunities detected before the first pass
    isRunning,      \* CircularFeedbackSystem.isRunning
    cycleInterval,  \* CircularFeedbackSystem.cycleInterval: a timer id, 0 for null
    timers,         \* the interval timers scheduled in the event loop
    unhandled,      \* history: the promise of an interval callback of the
                    \* feedback system was rejected, which nothing handles
    cycles,         \* every FeedbackCycle object created, in creation order
    activeCycles,   \* CircularFeedbackSystem.activeCycles: key -> index in cycles
    tasks,          \* slot t -> the invocation of executeFeedbackCycle in it
    repositoryActivities,  \* CircularFeedbackSystem.repositoryActivities
    hasToken,       \* process.env.GITHUB_TOKEN is set
    pillars,        \* XMRTCoordinationService.pillars: key -> status
    systemActivities,   \* XMRTCoordinationService.systemActivities
    activeDiscussions,  \* XMRTCoordinationService.activeDiscussions
    syncInterval,   \* XMRTCoordinationService.syncInterval: a timer id, 0 for null
    isCoordinating, \* XMRTCoordinationService.isCoordinating
    syncTimers,     \* the interval timers of the service scheduled in the event loop
    syncs,          \* slot -> a checkAllPillarsHealth in progress and its caller
    emitted,        \* the last 'real-time-update' event emitted, <<>> for none
    messagesSent,   \* history: number of messages appended to activeDiscussions
    activitiesAdded, \* history: number of records appended to systemActivities
    lastSyncAssigned, \* history: the pillar whose lastSync the latest settled
                    \* health request assigned, "none" when it assigned none
    onlineObserved  \* history: a settled health request has set a pillar online

schedVars == <<isRunning, cycleInterval, timers, unhandled>>
cycleVars == <<cycles, activeCycles, tasks, repositoryActivities, hasToken>>
coordVars == <<pillars, systemActivities, activeDiscussions, syncInterval,
               isCoordinating, syncTimers, syncs, emitted, messagesSent,
               activitiesAdded, lastSyncAssigned, onlineObserved>>

convVars == <<opportunities, services, pass, storageFailed, overlapped,
              createFailed, flips, detected0>>

vars == <<convVars, schedVars, cycleVars, coordVars>>

----------------------------------------------------------------------------
(* Storage collaborator (server/storage, consumed through its CRUD surface) *)

StorageCreateService(svcs, serviceData) == Append(svcs, serviceData)

StorageUpdateOpportunity(opps, id, patch) == [opps EXCEPT ![id] = patch]

ServicesOf(o) == {i \in 1..Len(services) : services[i].opportunityId = o}

\* a stored opportunity with the fields the converter reads; a title is the
\* sequence of its characters
Stored(status) ==
    [status |-> status, title |-> <<"W", "e", "b">>,
     estimatedValue |-> 5000, confidence |-> 80]

----------------------------------------------------------------------------
(* Strings and numbers of the language *)

Min(a, b) == IF a <= b THEN a ELSE b

UpperCaseLetters ==
    <<"A", "B", "C", "D", "E", "F", "G", "H", "I", "J", "K", "L", "M",
      "N", "O", "P", "Q", "R", "S", "T", "U", "V", "W", "X", "Y", "Z">>
LowerCaseLetters ==
    <<"a", "b", "c", "d", "e", "f", "g", "h", "i", "j", "k", "l", "m",
      "n", "o", "p", "q", "r", "s", "t", "u", "v", "w", "x", "y", "z">>
Digits == <<"0", "1", "2", "3", "4", "5", "6", "7", "8", "9">>

\* String.prototype.toLowerCase
toLowerCase(str) ==
    [i \in 1..Len(str) |->
        IF \E n \in DOMAIN UpperCaseLetters : UpperCaseLetters[n] = str[i]
        THEN LowerCaseLetters[CHOOSE n \in DOMAIN UpperCaseLetters :
                                  UpperCaseLetters[n] = str[i]]
        ELSE str[i]]

\* String.prototype.includes
includes(str, search) ==
    \E i \in 1..(Len(str) - Len(search) + 1) :
        SubSeq(str, i, i + Len(search) - 1) = search

\* Number.prototype.toString of a natural number
RECURSIVE toString(_)
toString(n) ==
    IF n < 10 THEN <<Digits[n + 1]>>
    ELSE Append(toString(n \div 10), Digits[(n % 10) + 1])

----------------------------------------------------------------------------
(* autoConvertOpportunitiesToServices *)

\* lines 567-577
calculateAutomationLevelUncapped(opportunity) ==
    50 + (IF opportunity.estimatedValue > 10000 THEN 20 ELSE 0)
       + (IF opportunity.confidence > 90 THEN 15 ELSE 0)
       + (IF includes(toLowerCase(opportunity.title),
                      <<"a", "u", "t", "o", "m", "a", "t", "i", "o", "n">>)
          THEN 25 ELSE 0)
       + (IF includes(toLowerCase(opportunity.title), <<"a", "i">>)
          THEN 20 ELSE 0)
calculateAutomationLevel(opportunity) ==
    Min(100,
        50 + (IF opportunity.estimatedValue > 10000 THEN 20 ELSE 0)
           + (IF opportunity.confidence > 90 THEN 15 ELSE 0)
           + (IF includes(toLowerCase(opportunity.title),
                          <<"a", "u", "t", "o", "m", "a", "t", "i", "o", "n">>)
              THEN 25 ELSE 0)
           + (IF includes(toLowerCase(opportunity.title), <<"a", "i">>)
              THEN 20 ELSE 0))

\* lines 512-520: the Service built from an opportunity, with the fields the
\* model keeps
serviceData(opportunity, id) ==
    [opportunityId |-> id,
     automationLevel |-> toString(calculateAutomationLevel(opportunity))]

\* line 509: only opportunities read as 'detected' are converted
ShouldConvertAlways(opportunity) == TRUE
ShouldConvert(opportunity) == opportunity.status = "detected"

\* lines 523-530: the two awaited storage writes of one item, in order
ItemWritesUpdateFirst == <<"updateOpportunity", "createService">>
ItemWrites == <<"createService", "updateOpportunity">>

\* the for loop of line 507: the next index from `from` on that is converted
NextItemFirst(snap, from) ==
    IF from = 1 /\ ShouldConvert(snap[1]) THEN 1 ELSE 0
NextItem(snap, from) ==
    LET S == {k \in from..NumOpps : ShouldConvert(snap[k])}
    IN  IF S = {} THEN 0 ELSE CHOOSE k \in S : \A j \in S : k <= j

IdleTask ==
    [pc |-> "idle", caller |-> "none", cyc |-> 0, sel |-> <<>>,
     authed |-> FALSE, i |-> 0, createdRepos |-> <<>>, repoOk |-> <<>>,
     numCommits |-> 0, totalCommits |-> 0]

IdlePass ==
    [pc |-> "idle", snap |-> <<>>, k |-> 0, w |-> 0,
     attempted |-> {}, created |-> {}, updIssued |-> {}, converted |-> {},
     seenFailed |-> {}, failOpp |-> 0, failWrite |-> "none"]

Running(p) == pass[p].pc \in {"getOpportunities", "write"}

\* lines 498-503: the call; it runs up to `await storage.getOpportunities()`
\* (the import of line 502 resolves from the module cache, line 2 loaded it)
AutoConvertCall(p) ==
    /\ pass[p].pc = "idle"
    /\ \A q \in Passes : q < p => pass[q].pc # "idle"
    /\ pass' = [pass EXCEPT ![p].pc = "getOpportunities"]
    /\ overlapped' = (overlapped \/ \E q \in Passes : Running(q))
    /\ UNCHANGED <<opportunities, services, storageFailed, createFailed, flips,
                   detected0, schedVars, cycleVars, coordVars>>

\* lines 503-522: getOpportunities settles; the loop runs to its first write
GetOpportunities(p, ok) ==
    /\ pass[p].pc = "getOpportunities"
    /\ IF ok
       THEN LET k == NextItem(opportunities, 1)
            IN  /\ pass' = [pass EXCEPT
                     ![p].snap = opportunities,
                     ![p].seenFailed = createFailed,
                     ![p].k = k,
                     ![p].w = IF k = 0 THEN 0 ELSE 1,
                     ![p].attempted = IF k # 0 /\ ItemWrites[1] = "createService"
                                      THEN {k} ELSE {},
                     ![p].updIssued = IF k # 0 /\ ItemWrites[1] = "updateOpportunity"
                                      THEN {k} ELSE {},
                     ![p].pc = IF k = 0 THEN "returned" ELSE "write"]
                /\ UNCHANGED storageFailed
       ELSE \* line 539: the catch around the whole pass
            /\ pass' = [pass EXCEPT ![p].pc = "returned"]
            /\ storageFailed' = TRUE
    /\ UNCHANGED <<opportunities, services, overlapped, createFailed, flips,
                   detected0, schedVars, cycleVars, coordVars>>

\* the effect on storage of the write that pass p awaits
WriteEffect(p, name) ==
    LET o == pass[p].k
    IN  IF name = "createService"
        THEN /\ services' = StorageCreateService(services,
                                                 serviceData(pass[p].snap[o], o))
             /\ UNCHANGED <<opportunities, flips>>
        ELSE /\ opportunities' = StorageUpdateOpportunity(opportunities, o,
                                   [pass[p].snap[o] EXCEPT !.status = "converted"])
             /\ flips' = [flips EXCEPT ![o] =
                            IF opportunities[o].status = "detected" THEN @ + 1 ELSE @]
             /\ UNCHANGED services

\* lines 523-535 and 539-541: the awaited write of the current item settles
ItemWrite(p, ok) ==
    /\ pass[p].pc = "write"
    /\ LET o == pass[p].k
           w == pass[p].w
           name == ItemWrites[w]
       IN  IF ok
           THEN /\ WriteEffect(p, name)
                /\ IF w < Len(ItemWrites)
                   THEN \* the second write of the item is issued
                        pass' = [pass EXCEPT
                          ![p].w = w + 1,
                          ![p].created = IF name = "createService"
                                         THEN @ \cup {o} ELSE @,
                          ![p].converted = IF name = "updateOpportunity"
                                           THEN @ \cup {o} ELSE @,
                          ![p].attempted = IF ItemWrites[w + 1] = "createService"
                                           THEN @ \cup {o} ELSE @,
                          ![p].updIssued = IF ItemWrites[w + 1] = "updateOpportunity"
                                           THEN @ \cup {o} ELSE @]
                   ELSE \* line 532: the item is done, the loop goes on
                        LET k == IF o < NumOpps THEN NextItem(pass[p].snap, o + 1) ELSE 0
                        IN  pass' = [pass EXCEPT
                              ![p].created = IF name = "createService"
                                             THEN @ \cup {o} ELSE @,
                              ![p].converted = IF name = "updateOpportunity"
                                               THEN @ \cup {o} ELSE @,
                              ![p].k = k,
                              ![p].w = IF k = 0 THEN 0 ELSE 1,
                              ![p].attempted = IF k # 0 /\ ItemWrites[1] = "createService"
                                               THEN @ \cup {k} ELSE @,
                              ![p].updIssued = IF k # 0 /\ ItemWrites[1] = "updateOpportunity"
                                               THEN @ \cup {k} ELSE @,
                              ![p].pc = IF k = 0 THEN "returned" ELSE "write"]
                /\ UNCHANGED <<storageFailed, createFailed>>
           ELSE \* the write throws: the catch of line 539 ends the pass
                /\ pass' = [pass EXCEPT ![p].pc = "returned",
                                        ![p].failOpp = o,
                                        ![p].failWrite = name]
                /\ storageFailed' = TRUE
                /\ createFailed' = IF name = "createService"
                                   THEN createFailed \cup {o} ELSE createFailed
                /\ UNCHANGED <<opportunities, services, flips>>
    /\ UNCHANGED <<overlapped, detected0, schedVars, cycleVars, coordVars>>

----------------------------------------------------------------------------
(* executeFeedbackCycle and its phases *)

\* lines 134-136: sort() with a random comparator permutes the candidate list
\* and slice(0, k) keeps its first k = floor(random * 3) + 2 items
DetectCounts == {n + 2 : n \in 0..2}
Selections ==
    {q \in UNION {[1..k -> 1..NumCandidates] : k \in DetectCounts} :
        \A a, b \in DOMAIN q : a # b => q[a] # q[b]}

\* line 351: numCommits = floor(random * 5) + 3
CommitCounts == {n + 3 : n \in 0..4}

\* lines 60-69
NewCycle(number) ==
    [cycleNumber |-> number, repositoriesCreated |-> <<>>,
     commitsGenerated |-> 0, newOpportunitiesDetected |-> 0,
     feedbackScore |-> 0, status |-> "active", ended |-> FALSE,
     \* history: the createMetric calls issued for the cycle, and whether the
     \* last one failed
     metricWrites |-> 0, metricFailed |-> FALSE]

\* lines 424-440
calculateFeedbackScoreUncapped(cycle) ==
    Len(cycle.repositoriesCreated) * 10 + cycle.commitsGenerated * 5
        + cycle.newOpportunitiesDetected * 5 + 10
calculateFeedbackScore(cycle) ==
    LET repos == Min(Len(cycle.repositoriesCreated) * 10, 40)
        commits == Min(cycle.commitsGenerated * 5, 30)
        opps == Min(cycle.newOpportunitiesDetected * 5, 20)
        bonus == IF cycle.status = "completed" THEN 10 ELSE 0
    IN  Min(repos + commits + opps + bonus, 100)

\* lines 461-465 (the cycles of the map that are active)
ActiveKeys == {k \in DOMAIN activeCycles : cycles[activeCycles[k]].status = "active"}

\* lines 472-474
getRepositoryActivities ==
    LET n == Len(repositoryActivities)
    IN  IF n <= RepositoryActivityCap THEN repositoryActivities
        ELSE SubSeq(repositoryActivities, n - RepositoryActivityCap + 1, n)

\* lines 467-470: the cycles of the map, as their indices in cycles, by
\* decreasing cycleNumber
getCycleHistory ==
    SortSeq(activeCycles,
            LAMBDA a, b : cycles[a].cycleNumber > cycles[b].cycleNumber)

\* lines 476-495, with the fields the model keeps
getSystemMetrics ==
    [totalCycles |-> Len(activeCycles), isActive |-> isRunning]

Free(t) == tasks[t].pc = "idle"
FreeSlot == CHOOSE t \in Passes : Free(t) /\ \A u \in Passes : Free(u) => t <= u

\* lines 182-189: the activity entry of one opportunity
Activity(opportunity) == [repoName |-> opportunity]

\* lines 152-196 for item i of task t, from the top of the loop body up to the
\* next awaited call: createRealRepository when authenticated, else the code
\* execution of executeProjectCode (the activity entry is pushed before it)
ItemStart(task, i, authed) ==
    IF authed
    THEN [task EXCEPT !.i = i, !.authed = authed, !.pc = "repo"]
    ELSE [task EXCEPT !.i = i, !.authed = authed, !.pc = "exec"]

ItemPushes(task, i, authed) ==
    IF authed THEN <<>> ELSE <<Activity(task.sel[i])>>

\* lines 58-82 and 144-152: the call, up to its first awaited I/O
BeginCycle(t, caller, sameMs, sel) ==
    LET size == Len(activeCycles)
        key == IF sameMs THEN size ELSE size + 1
        obj == Len(cycles) + 1
        cycle == [NewCycle(size + 1) EXCEPT !.newOpportunitiesDetected = Len(sel)]
        task == [IdleTask EXCEPT !.caller = caller, !.cyc = obj, !.sel = sel]
    IN  /\ Free(t)
        /\ sameMs => size > 0
        /\ cycles' = Append(cycles, cycle)
        /\ activeCycles' = IF key <= size
                           THEN [activeCycles EXCEPT ![key] = obj]
                           ELSE Append(activeCycles, obj)
        /\ IF hasToken
           THEN /\ tasks' = [tasks EXCEPT ![t] = [task EXCEPT !.pc = "auth"]]
                /\ UNCHANGED repositoryActivities
           ELSE /\ tasks' = [tasks EXCEPT ![t] = ItemStart(task, 1, FALSE)]
                /\ repositoryActivities' =
                       repositoryActivities \o ItemPushes(task, 1, FALSE)
        /\ pass' = [pass EXCEPT ![t] = IdlePass]
        /\ UNCHANGED <<hasToken, coordVars>>

\* lines 213-233: the request of checkGitHubAuthentication settles
AuthSettles(t, ok) ==
    /\ tasks[t].pc = "auth"
    /\ tasks' = [tasks EXCEPT ![t] = ItemStart(tasks[t], 1, ok)]
    /\ repositoryActivities' = repositoryActivities \o ItemPushes(tasks[t], 1, ok)
    /\ UNCHANGED <<convVars, schedVars, cycles, activeCycles, hasToken, coordVars>>

\* lines 163-175: the URL is pushed to createdRepos when createRealRepository
\* returns it; its throw is caught and nothing is pushed
CreatedAfterAlways(createdRepos, opportunity, ok) == Append(createdRepos, opportunity)
CreatedAfter(createdRepos, opportunity, ok) ==
    IF ok THEN Append(createdRepos, opportunity) ELSE createdRepos

\* lines 161-189: createRealRepository settles (repoOk is the history of its
\* outcomes in this invocation)
RepoSettles(t, ok) ==
    /\ tasks[t].pc = "repo"
    /\ LET task == tasks[t]
           opportunity == task.sel[task.i]
       IN  /\ tasks' = [tasks EXCEPT
                 ![t].createdRepos = CreatedAfter(@, opportunity, ok),
                 ![t].repoOk = Append(@, ok),
                 ![t].pc = "exec"]
           /\ repositoryActivities' =
                  Append(repositoryActivities, Activity(opportunity))
    /\ UNCHANGED <<convVars, schedVars, cycles, activeCycles, hasToken, coordVars>>

\* lines 196-203, 83-86 and 498-503: the code execution of item i settles (a
\* failure is caught at line 328 or 198); the loop goes on, and after the
\* last item the conversion pass is called
ExecSettles(t, ok) ==
    /\ tasks[t].pc = "exec"
    /\ LET task == tasks[t]
       IN  IF task.i < Len(task.sel)
           THEN /\ tasks' = [tasks EXCEPT
                      ![t] = ItemStart(task, task.i + 1, task.authed)]
                /\ repositoryActivities' = repositoryActivities
                       \o ItemPushes(task, task.i + 1, task.authed)
                /\ UNCHANGED <<cycles, pass, overlapped>>
           ELSE /\ tasks' = [tasks EXCEPT ![t].pc = "convert"]
                /\ cycles' = [cycles EXCEPT
                      ![task.cyc].repositoriesCreated = task.createdRepos]
                /\ pass' = [pass EXCEPT ![t].pc = "getOpportunities"]
                /\ overlapped' = (overlapped \/ \E q \in Passes : Running(q))
                /\ UNCHANGED repositoryActivities
    /\ UNCHANGED <<opportunities, services, storageFailed, createFailed, flips,
                   detected0, schedVars, activeCycles, hasToken, coordVars>>

\* lines 333-357: the pass has returned (line 541); generateCommitsForExistingRepos draws
\* the number of commits and awaits the first code execution
CommitsStart(t, numCommits) ==
    /\ tasks[t].pc = "convert"
    /\ pass[t].pc = "returned"
    /\ tasks' = [tasks EXCEPT ![t].pc = "commit", ![t].numCommits = numCommits]
    /\ UNCHANGED <<convVars, schedVars, cycles, activeCycles,
                   repositoryActivities, hasToken, coordVars>>

\* lines 39-42: start() goes on after its awaited first cycle has returned
\* (setInterval returns a timer that is not scheduled yet: the first such id)
StartContinues(caller) ==
    IF caller = "start"
    THEN LET id == CHOOSE n \in 1..(Cardinality(timers) + 1) : n \notin timers
         IN  /\ cycleInterval' = id
             /\ timers' = timers \cup {id}
             /\ UNCHANGED <<isRunning, unhandled>>
    ELSE UNCHANGED schedVars

\* lines 110-113: the catch of executeFeedbackCycle
FailCycleNoEnd(cycle) == [cycle EXCEPT !.status = "failed"]
FailCycle(cycle) == [cycle EXCEPT !.status = "failed", !.ended = TRUE]

\* lines 114 and 40-42: the catch throws the error again, so the promise of
\* the caller is rejected; nothing handles that of an interval callback
Rethrown(caller) == caller = "tick"

\* lines 105 and 442-454: storeCycleResults up to its awaited createMetric
storeCycleResultsNone(cycle) == cycle
storeCycleResults(cycle) == [cycle EXCEPT !.metricWrites = @ + 1]

\* lines 357-381, 89-106 and 110-115: one code execution of the commit loop
\* settles
CommitSettles(t, ok) ==
    /\ tasks[t].pc = "commit"
    /\ LET task == tasks[t]
           c == task.cyc
           total == task.totalCommits + 1
       IN  IF ~ok
           THEN \* executePythonCode throws: the catch of line 110
                /\ cycles' = [cycles EXCEPT ![c] = FailCycle(cycles[c])]
                /\ tasks' = [tasks EXCEPT ![t] = IdleTask]
                /\ pass' = [pass EXCEPT ![t] = IdlePass]
                /\ unhandled' = (unhandled \/ Rethrown(task.caller))
           ELSE IF total < task.numCommits
           THEN /\ tasks' = [tasks EXCEPT ![t].totalCommits = total]
                /\ UNCHANGED <<cycles, pass, unhandled>>
           ELSE LET counted == [cycles[c] EXCEPT !.commitsGenerated = total]
                    scored == [counted EXCEPT
                                 !.feedbackScore = calculateFeedbackScore(counted)]
                IN  /\ cycles' = [cycles EXCEPT ![c] = storeCycleResults(
                          [scored EXCEPT !.ended = TRUE, !.status = "completed"])]
                    /\ tasks' = [tasks EXCEPT ![t].totalCommits = total,
                                              ![t].pc = "store"]
                    /\ UNCHANGED <<pass, unhandled>>
    /\ UNCHANGED <<opportunities, services, storageFailed, overlapped,
                   createFailed, flips, detected0>>
    /\ UNCHANGED <<isRunning, cycleInterval, timers, activeCycles,
                   repositoryActivities, hasToken, coordVars>>

\* lines 455-457: the catch of storeCycleResults only logs the error, so
\* the cycle is the same after either outcome
AfterStoreRethrown(cycle, ok) == IF ok THEN cycle ELSE FailCycle(cycle)
AfterStore(cycle, ok) == cycle

\* lines 442-458 and 108: createMetric settles (a failure is caught at line
\* 455); the cycle is returned to the caller
StoreSettles(t, ok) ==
    /\ tasks[t].pc = "store"
    /\ cycles' = [cycles EXCEPT ![tasks[t].cyc] =
                     [AfterStore(@, ok) EXCEPT !.metricFailed = ~ok]]
    /\ tasks' = [tasks EXCEPT ![t] = IdleTask]
    /\ pass' = [pass EXCEPT ![t] = IdlePass]
    /\ StartContinues(tasks[t].caller)
    /\ UNCHANGED <<opportunities, services, storageFailed, overlapped,
                   createFailed, flips, detected0>>
    /\ UNCHANGED <<activeCycles, repositoryActivities, hasToken, coordVars>>

----------------------------------------------------------------------------
(* start, stop, the interval callback and direct calls *)

\* lines 30-37: start() up to its awaited first cycle
Start(sameMs, sel) ==
    /\ ~isRunning
    /\ \E t \in Passes : Free(t)
    /\ isRunning' = TRUE
    /\ BeginCycle(FreeSlot, "start", sameMs, sel)
    /\ UNCHANGED <<cycleInterval, timers, unhandled>>
    /\ UNCHANGED <<opportunities, services, storageFailed, overlapped,
                   createFailed, flips, detected0>>

\* lines 49-56
StopAborts ==
    /\ isRunning' = FALSE
    /\ timers' = timers \ {cycleInterval}
    /\ cycleInterval' = 0
    /\ tasks' = [t \in Passes |-> IdleTask]
    /\ pass' = [t \in Passes |-> IdlePass]
    /\ UNCHANGED <<unhandled, opportunities, services, storageFailed,
                   overlapped, createFailed, flips, detected0, cycles,
                   activeCycles, repositoryActivities, hasToken, coordVars>>
Stop ==
    /\ isRunning' = FALSE
    /\ timers' = timers \ {cycleInterval}
    /\ cycleInterval' = 0
    /\ UNCHANGED <<unhandled, convVars, cycleVars, coordVars>>

\* lines 40-42: the callback of a scheduled interval timer runs
Tick(tm, sameMs, sel) ==
    /\ tm \in timers
    /\ \E t \in Passes : Free(t)
    /\ BeginCycle(FreeSlot, "tick", sameMs, sel)
    /\ UNCHANGED schedVars
    /\ UNCHANGED <<opportunities, services, storageFailed, overlapped,
                   createFailed, flips, detected0>>

\* line 58: executeFeedbackCycle is public and called on the exported object
DirectCall(sameMs, sel) ==
    /\ \E t \in Passes : Free(t)
    /\ BeginCycle(FreeSlot, "direct", sameMs, sel)
    /\ UNCHANGED schedVars
    /\ UNCHANGED <<opportunities, services, storageFailed, overlapped,
                   createFailed, flips, detected0>>

----------------------------------------------------------------------------
(* XMRTCoordinationService *)

\* lines 44-68: the keys of the pillar map, in insertion order
PillarKeys == <<"hub", "ecosystem", "dao">>
Pillars == {PillarKeys[i] : i \in DOMAIN PillarKeys}
Syncs == 1..MaxSyncs

\* lines 111-122: the status a health request's outcome gives its pillar
HealthOutcomes == {"ok", "bad", "error"}
StatusAfterOnline(outcome) == "online"
StatusAfter(outcome) ==
    CASE outcome = "ok" -> "online"
      [] outcome = "bad" -> "degraded"
      [] OTHER -> "offline"

\* lines 111-113: only a response that is ok assigns lastSync
AssignsLastSync(outcome) == outcome = "ok"

\* lines 102-122: the try statement is inside the for loop, so after any
\* outcome the loop goes on to the next pillar; 0 when the loop has ended
AfterHealthAborts(idx, outcome) ==
    IF outcome # "error" /\ idx < Len(PillarKeys) THEN idx + 1 ELSE 0
AfterHealth(idx, outcome) ==
    IF idx < Len(PillarKeys) THEN idx + 1 ELSE 0

\* slice(-cap) of lines 212-214 and 259-261
KeepFirst(buffer, cap) ==
    IF Len(buffer) > cap THEN SubSeq(buffer, 1, cap) ELSE buffer
KeepLast(buffer, cap) ==
    IF Len(buffer) > cap
    THEN SubSeq(buffer, Len(buffer) - cap + 1, Len(buffer))
    ELSE buffer

\* lines 194-220, on the pair st = [discussions, sent]
sendToPillarUnguarded(st, plr, target, type) ==
    LET message == [seq |-> st.sent + 1, source |-> "coordination-service",
                    target |-> target, type |-> type]
    IN  [discussions |-> KeepLast(Append(st.discussions, message), DiscussionCap),
         sent |-> st.sent + 1]
sendToPillar(st, plr, target, type) ==
    IF target \notin DOMAIN plr \/ plr[target] # "online"
    THEN st
    ELSE LET message == [seq |-> st.sent + 1, source |-> "coordination-service",
                         target |-> target, type |-> type]
         IN  [discussions |-> KeepLast(Append(st.discussions, message), DiscussionCap),
              sent |-> st.sent + 1]

\* lines 148-192
exchangePillarData(st, plr) ==
    LET a == IF plr["hub"] = "online"
             THEN sendToPillar(st, plr, "hub", "system_activity") ELSE st
        b == IF plr["ecosystem"] = "online" /\ plr["dao"] = "online"
             THEN sendToPillar(a, plr, "dao", "ecosystem_update") ELSE a
        c == IF plr["dao"] = "online" /\ plr["ecosystem"] = "online"
             THEN sendToPillar(b, plr, "ecosystem", "mining_data") ELSE b
    IN  c

\* lines 223-252: the catalog of activities (pillar, impact)
ActivityCatalog ==
    << [pillar |-> "hub", impact |-> "high"],
       [pillar |-> "ecosystem", impact |-> "medium"],
       [pillar |-> "dao", impact |-> "high"],
       [pillar |-> "ecosystem", impact |-> "medium"] >>

\* lines 254-261, on the pair st = [activities, added]
generateSystemActivity(st, choice) ==
    LET record == [seq |-> st.added + 1,
                   pillar |-> ActivityCatalog[choice].pillar,
                   impact |-> ActivityCatalog[choice].impact]
    IN  [activities |-> KeepLast(Append(st.activities, record), SystemActivityCap),
         added |-> st.added + 1]

\* lines 265-296: the catalog of discussions (source, target)
DiscussionCatalog ==
    << [source |-> "hub", target |-> "ecosystem"],
       [source |-> "ecosystem", target |-> "dao"],
       [source |-> "dao", target |-> "hub"] >>

\* lines 298-300
facilitateCrossPillarDiscussions(st, plr, choice) ==
    sendToPillar(st, plr, DiscussionCatalog[choice].target, "discussion")

\* lines 318-321: Math.round(online / size * 100)
calculateCoordinationHealthRatio(plr) ==
    LET online == Cardinality({k \in DOMAIN plr : plr[k] = "online"})
        size == Cardinality(DOMAIN plr)
    IN  (2 * online + size) \div (2 * size)
calculateCoordinationHealthFloor(plr) ==
    LET online == Cardinality({k \in DOMAIN plr : plr[k] = "online"})
        size == Cardinality(DOMAIN plr)
    IN  (100 * online) \div size
calculateCoordinationHealth(plr) ==
    LET online == Cardinality({k \in DOMAIN plr : plr[k] = "online"})
        size == Cardinality(DOMAIN plr)
    IN  (200 * online + size) \div (2 * size)

IdleSync == [pc |-> "idle", caller |-> "none", idx |-> 0]
FreeSync(t) == syncs[t].pc = "idle"
FreeSyncSlot == CHOOSE t \in Syncs : FreeSync(t) /\ \A u \in Syncs : FreeSync(u) => t <= u

\* lines 324-333: the public status read (last_sync, the time of the read,
\* is left out)
getSystemStatus ==
    [pillars |-> pillars,
     coordination_active |-> isCoordinating,
     health_score |-> calculateCoordinationHealth(pillars),
     active_discussions |-> Len(activeDiscussions),
     system_activities |-> Len(systemActivities)]

\* lines 76-86: startCoordination up to the first health request
StartCoordination ==
    /\ ~isCoordinating
    /\ \E t \in Syncs : FreeSync(t)
    /\ isCoordinating' = TRUE
    /\ syncs' = [syncs EXCEPT ![FreeSyncSlot] =
                    [pc |-> "health", caller |-> "start", idx |-> 1]]
    /\ UNCHANGED <<pillars, systemActivities, activeDiscussions, syncInterval,
                   syncTimers, emitted, messagesSent, activitiesAdded,
                   lastSyncAssigned, onlineObserved>>
    /\ UNCHANGED <<convVars, schedVars, cycleVars>>

\* lines 343-353
StopCoordination ==
    /\ isCoordinating' = FALSE
    /\ syncTimers' = syncTimers \ {syncInterval}
    /\ syncInterval' = 0
    /\ UNCHANGED <<pillars, systemActivities, activeDiscussions, syncs, emitted,
                   messagesSent, activitiesAdded, lastSyncAssigned, onlineObserved>>
    /\ UNCHANGED <<convVars, schedVars, cycleVars>>

\* lines 89-91 and 126-129: the interval callback runs performCoordinationCycle
\* up to the first health request
CoordTick(tm) ==
    /\ tm \in syncTimers
    /\ \E t \in Syncs : FreeSync(t)
    /\ syncs' = [syncs EXCEPT ![FreeSyncSlot] =
                    [pc |-> "health", caller |-> "tick", idx |-> 1]]
    /\ UNCHANGED <<pillars, systemActivities, activeDiscussions, syncInterval,
                   isCoordinating, syncTimers, emitted, messagesSent,
                   activitiesAdded, lastSyncAssigned, onlineObserved>>
    /\ UNCHANGED <<convVars, schedVars, cycleVars>>

\* lines 102-123: the health request of pillar idx settles; after the last
\* pillar the caller goes on without awaiting any I/O: startCoordination with
\* lines 88-96, performCoordinationCycle with lines 131-141
HealthSettles(t, outcome, activity, discussion) ==
    /\ syncs[t].pc = "health"
    /\ LET key == PillarKeys[syncs[t].idx]
           plr == [pillars EXCEPT ![key] = StatusAfter(outcome)]
           msgs == [discussions |-> activeDiscussions, sent |-> messagesSent]
           acts == generateSystemActivity(
                     [activities |-> systemActivities, added |-> activitiesAdded],
                     activity)
       IN  /\ pillars' = plr
           /\ lastSyncAssigned' = IF AssignsLastSync(outcome) THEN key ELSE "none"
           /\ onlineObserved' = (onlineObserved \/ plr[key] = "online")
           /\ IF AfterHealth(syncs[t].idx, outcome) # 0
              THEN /\ syncs' = [syncs EXCEPT ![t].idx =
                                    AfterHealth(syncs[t].idx, outcome)]
                   /\ UNCHANGED <<systemActivities, activeDiscussions,
                                  syncInterval, syncTimers, emitted,
                                  messagesSent, activitiesAdded>>
              ELSE IF syncs[t].caller = "start"
              THEN LET id == CHOOSE n \in 1..(Cardinality(syncTimers) + 1) :
                                 n \notin syncTimers
                   IN  /\ syncs' = [syncs EXCEPT ![t] = IdleSync]
                       /\ syncInterval' = id
                       /\ syncTimers' = syncTimers \cup {id}
                       /\ systemActivities' = acts.activities
                       /\ activitiesAdded' = acts.added
                       /\ UNCHANGED <<activeDiscussions, emitted, messagesSent>>
              ELSE LET exchanged == exchangePillarData(msgs, plr)
                       discussed == facilitateCrossPillarDiscussions(
                                      exchanged, plr, discussion)
                   IN  /\ syncs' = [syncs EXCEPT ![t] = IdleSync]
                       /\ systemActivities' = acts.activities
                       /\ activitiesAdded' = acts.added
                       /\ activeDiscussions' = discussed.discussions
                       /\ messagesSent' = discussed.sent
                       \* lines 303-316: updateRealTimeEvidence
                       /\ emitted' = [system_status |-> plr,
                                      active_discussions |-> Len(discussed.discussions),
                                      system_activities |-> Len(acts.activities),
                                      coordination_health |->
                                          calculateCoordinationHealth(plr)]
                       /\ UNCHANGED <<syncInterval, syncTimers>>
    /\ UNCHANGED isCoordinating
    /\ UNCHANGED <<convVars, schedVars, cycleVars>>

\* the service as constructed (lines 31-40 and 42-68)
CoordInit ==
    /\ pillars = [k \in Pillars |-> "offline"]
    /\ systemActivities = <<>>
    /\ activeDiscussions = <<>>
    /\ syncInterval = 0
    /\ isCoordinating = FALSE
    /\ syncTimers = {}
    /\ syncs = [t \in Syncs |-> IdleSync]
    /\ emitted = <<>>
    /\ messagesSent = 0
    /\ activitiesAdded = 0
    /\ lastSyncAssigned = "none"
    /\ onlineObserved = FALSE

----------------------------------------------------------------------------
(* The converter under any invocations and any storage failures *)

\* the feedback system as constructed (lines 25-28), before any call
FeedbackInit ==
    /\ isRunning = FALSE
    /\ cycleInterval = 0
    /\ timers = {}
    /\ unhandled = FALSE
    /\ cycles = <<>>
    /\ activeCycles = <<>>
    /\ tasks = [t \in Passes |-> IdleTask]
    /\ repositoryActivities = <<>>

HistoryInit ==
    /\ pass = [p \in Passes |-> IdlePass]
    /\ storageFailed = FALSE
    /\ overlapped = FALSE
    /\ createFailed = {}
    /\ flips = [o \in OppIds |-> 0]
    /\ detected0 = {o \in OppIds : opportunities[o].status = "detected"}

\* storage in which every opportunity has been converted to its Service
ConvertedStorage ==
    /\ opportunities = [o \in OppIds |-> Stored("converted")]
    /\ services = [o \in OppIds |-> serviceData(Stored("converted"), o)]

\* Init: an opportunity the storage holds as converted has its Service
ConvInit ==
    /\ FeedbackInit
    /\ CoordInit
    /\ hasToken = FALSE
    /\ opportunities \in [OppIds -> {Stored("detected"), Stored("converted")}]
    /\ services = SelectSeq([o \in OppIds |-> serviceData(Stored("converted"), o)],
                            LAMBDA s : opportunities[s.opportunityId].status = "converted")
    /\ HistoryInit

ConvNext ==
    \/ \E p \in Passes : AutoConvertCall(p)
    \/ \E p \in Passes, ok \in BOOLEAN : GetOpportunities(p, ok)
    \/ \E p \in Passes, ok \in BOOLEAN : ItemWrite(p, ok)

ConvSpec == ConvInit /\ [][ConvNext]_vars

----------------------------------------------------------------------------
(* One pass of the converter with no storage failure, over detected         *)
(* opportunities of any title, estimated value and confidence of the sets   *)
(* below                                                                    *)

AutomationTitles ==
    { <<"W", "e", "b">>,
      <<"A", "I", " ", "b", "o", "t">>,
      <<"E", "m", "a", "i", "l">>,
      <<"A", "U", "T", "O", "M", "A", "T", "I", "O", "N">>,
      <<"a", "u", "t", "o", "m", "a", "t", "e", "d">>,
      <<"A", "i", " ", "A", "u", "t", "o", "m", "a", "t", "i", "o", "n">> }
AutomationValues == {10000, 10001}
AutomationConfidences == {90, 91}

AutomationInit ==
    /\ FeedbackInit
    /\ CoordInit
    /\ hasToken = FALSE
    /\ opportunities \in
          [OppIds -> [status : {"detected"}, title : AutomationTitles,
                      estimatedValue : AutomationValues,
                      confidence : AutomationConfidences]]
    /\ services = <<>>
    /\ HistoryInit

AutomationNext ==
    \/ AutoConvertCall(1)
    \/ GetOpportunities(1, TRUE)
    \/ ItemWrite(1, TRUE)

AutomationSpec == AutomationInit /\ [][AutomationNext]_vars

----------------------------------------------------------------------------
(* The scheduler: start, stop, interval callbacks and direct calls in any   *)
(* order, with cycles in progress at once; no GitHub token, every           *)
(* opportunity of the storage already converted                             *)

SpecSelections == {<<1, 2>>}
SpecCommitCounts == {3}

Init ==
    /\ FeedbackInit
    /\ CoordInit
    /\ hasToken = FALSE
    /\ ConvertedStorage
    /\ HistoryInit

Next ==
    \/ /\ Len(cycles) < MaxCycles
       /\ \E sameMs \in BOOLEAN, sel \in SpecSelections : Start(sameMs, sel)
    \/ Stop
    \/ /\ Len(cycles) < MaxCycles
       /\ \E tm \in timers, sameMs \in BOOLEAN, sel \in SpecSelections :
             Tick(tm, sameMs, sel)
    \/ /\ Len(cycles) < MaxCycles
       /\ \E sameMs \in BOOLEAN, sel \in SpecSelections : DirectCall(sameMs, sel)
    \/ \E t \in Passes, ok \in BOOLEAN : ExecSettles(t, ok)
    \/ \E t \in Passes : GetOpportunities(t, TRUE)
    \/ \E t \in Passes, n \in SpecCommitCounts : CommitsStart(t, n)
    \/ \E t \in Passes, ok \in BOOLEAN : CommitSettles(t, ok)
    \/ \E t \in Passes, ok \in BOOLEAN : StoreSettles(t, ok)

Spec == Init /\ [][Next]_vars

----------------------------------------------------------------------------
(* Cycles run one after the other by direct calls, every collaborator       *)
(* succeeding, no GitHub token                                              *)

LogSelections == {<<1, 2>>, <<3, 4, 5>>, <<8, 7, 6, 5>>}

LogInit ==
    /\ FeedbackInit
    /\ CoordInit
    /\ hasToken = FALSE
    /\ ConvertedStorage
    /\ HistoryInit

LogNext ==
    \/ /\ Len(cycles) < MaxLogCycles
       /\ \A t \in Passes : Free(t)
       /\ \E sel \in LogSelections : DirectCall(FALSE, sel)
    \/ \E t \in Passes : ExecSettles(t, TRUE)
    \/ \E t \in Passes : GetOpportunities(t, TRUE)
    \/ \E t \in Passes : CommitsStart(t, 3)
    \/ \E t \in Passes : CommitSettles(t, TRUE)
    \/ \E t \in Passes : StoreSettles(t, TRUE)

LogSpec == LogInit /\ [][LogNext]_vars

----------------------------------------------------------------------------
(* The scheduler with its cycles one after the other: start() is called     *)
(* when no cycle is in progress, stop() while a cycle is active, the        *)
(* interval callback runs when no cycle is in progress; with or without a   *)
(* GitHub token, every collaborator call returns, with either outcome; the  *)
(* metric write, whose failure storeCycleResults only logs, succeeds        *)

RunSelections == {<<1, 2>>}
RunCommitCounts == {3}

RunInit ==
    /\ FeedbackInit
    /\ CoordInit
    /\ hasToken \in BOOLEAN
    /\ ConvertedStorage
    /\ HistoryInit

RunNext ==
    \/ /\ Len(cycles) < MaxRunCycles
       /\ \A t \in Passes : Free(t)
       /\ \E sel \in RunSelections : Start(FALSE, sel)
    \/ /\ ActiveKeys # {}
       /\ Stop
    \/ /\ Len(cycles) < MaxRunCycles
       /\ \A t \in Passes : Free(t)
       /\ \E tm \in timers, sel \in RunSelections : Tick(tm, FALSE, sel)
    \/ \E t \in Passes, ok \in BOOLEAN : AuthSettles(t, ok)
    \/ \E t \in Passes, ok \in BOOLEAN : RepoSettles(t, ok)
    \/ \E t \in Passes, ok \in BOOLEAN : ExecSettles(t, ok)
    \/ \E t \in Passes, ok \in BOOLEAN : GetOpportunities(t, ok)
    \/ \E t \in Passes, n \in RunCommitCounts : CommitsStart(t, n)
    \/ \E t \in Passes, ok \in BOOLEAN : CommitSettles(t, ok)
    \/ \E t \in Passes : StoreSettles(t, TRUE)

\* every collaborator call that a cycle awaits returns
RunFairness ==
    \A t \in Passes :
        /\ WF_vars(\E ok \in BOOLEAN : AuthSettles(t, ok))
        /\ WF_vars(\E ok \in BOOLEAN : RepoSettles(t, ok))
        /\ WF_vars(\E ok \in BOOLEAN : ExecSettles(t, ok))
        /\ WF_vars(\E ok \in BOOLEAN : GetOpportunities(t, ok))
        /\ WF_vars(\E n \in RunCommitCounts : CommitsStart(t, n))
        /\ WF_vars(\E ok \in BOOLEAN : CommitSettles(t, ok))
        /\ WF_vars(StoreSettles(t, TRUE))

RunSpec == RunInit /\ [][RunNext]_vars /\ RunFairness

\* the same scheduler when a request with no timeout may stay pending for
\* ever: the requests of checkGitHubAuthentication (lines 213-219) and of
\* createRealRepository carry no timeout and no abort signal; every other
\* awaited call returns
StallFairness ==
    \A t \in Passes :
        /\ WF_vars(\E ok \in BOOLEAN : ExecSettles(t, ok))
        /\ WF_vars(\E ok \in BOOLEAN : GetOpportunities(t, ok))
        /\ WF_vars(\E n \in RunCommitCounts : CommitsStart(t, n))
        /\ WF_vars(\E ok \in BOOLEAN : CommitSettles(t, ok))
        /\ WF_vars(StoreSettles(t, TRUE))

StallSpec == RunInit /\ [][RunNext]_vars /\ StallFairness

\* the same scheduler when the metric write may fail too
EndedNext ==
    \/ RunNext
    \/ \E t \in Passes : StoreSettles(t, FALSE)

EndedSpec == RunInit /\ [][EndedNext]_vars

----------------------------------------------------------------------------
(* One cycle, the immediate first one of start(), from the system as        *)
(* constructed and a storage whose opportunities are all detected: with or  *)
(* without a GitHub token, a selection of every length Detect can draw,     *)
(* every number of commits, every collaborator call with either outcome     *)

CycleSelections == {[i \in 1..k |-> i] : k \in DetectCounts}

DetectedStorage ==
    /\ opportunities = [o \in OppIds |-> Stored("detected")]
    /\ services = <<>>

CycleInit ==
    /\ FeedbackInit
    /\ CoordInit
    /\ hasToken \in BOOLEAN
    /\ DetectedStorage
    /\ HistoryInit

CycleNext ==
    \/ /\ cycles = <<>>
       /\ \E sel \in CycleSelections : Start(FALSE, sel)
    \/ \E t \in Passes, ok \in BOOLEAN : AuthSettles(t, ok)
    \/ \E t \in Passes, ok \in BOOLEAN : RepoSettles(t, ok)
    \/ \E t \in Passes, ok \in BOOLEAN : ExecSettles(t, ok)
    \/ \E t \in Passes, ok \in BOOLEAN : GetOpportunities(t, ok)
    \/ \E t \in Passes, ok \in BOOLEAN : ItemWrite(t, ok)
    \/ \E t \in Passes, n \in CommitCounts : CommitsStart(t, n)
    \/ \E t \in Passes, ok \in BOOLEAN : CommitSettles(t, ok)
    \/ \E t \in Passes, ok \in BOOLEAN : StoreSettles(t, ok)

CycleSpec == CycleInit /\ [][CycleNext]_vars

----------------------------------------------------------------------------
(* The same cycle when every collaborator call succeeds *)

E2ENext ==
    \/ /\ cycles = <<>>
       /\ \E sel \in CycleSelections : Start(FALSE, sel)
    \/ \E t \in Passes : AuthSettles(t, TRUE)
    \/ \E t \in Passes : RepoSettles(t, TRUE)
    \/ \E t \in Passes : ExecSettles(t, TRUE)
    \/ \E t \in Passes : GetOpportunities(t, TRUE)
    \/ \E t \in Passes : ItemWrite(t, TRUE)
    \/ \E t \in Passes, n \in CommitCounts : CommitsStart(t, n)
    \/ \E t \in Passes : CommitSettles(t, TRUE)
    \/ \E t \in Passes : StoreSettles(t, TRUE)

E2ESpec == CycleInit /\ [][E2ENext]_vars

----------------------------------------------------------------------------
(* The coordination service with its ticks one after the other: the hub     *)
(* answers its health request or not, the other pillars always answer; the  *)
(* first activity and the first discussion of the catalogs are drawn        *)

BufferInit ==
    /\ FeedbackInit
    /\ hasToken = FALSE
    /\ ConvertedStorage
    /\ HistoryInit
    /\ CoordInit

BufferNext ==
    \/ StartCoordination
    \/ /\ activitiesAdded <= MaxBufferTicks
       /\ \A t \in Syncs : FreeSync(t)
       /\ \E tm \in syncTimers : CoordTick(tm)
    \/ \E t \in Syncs, outcome \in {"ok", "error"} :
          /\ syncs[t].pc = "health"
          /\ outcome = "error" => PillarKeys[syncs[t].idx] = "hub"
          /\ HealthSettles(t, outcome, 1, 1)

BufferSpec == BufferInit /\ [][BufferNext]_vars

----------------------------------------------------------------------------
(* The coordination service started, stopped and started again any number   *)
(* of times before its first tick has run, then its ticks one after the     *)
(* other; every pillar answers its health request; the activities of the    *)
(* catalog are drawn in rotation                                            *)

ActivityInit ==
    /\ FeedbackInit
    /\ hasToken = FALSE
    /\ ConvertedStorage
    /\ HistoryInit
    /\ CoordInit

ActivityDrawn == (activitiesAdded % Len(ActivityCatalog)) + 1

ActivityNext ==
    \/ /\ activitiesAdded < MaxActivityAppends
       /\ StartCoordination
    \/ /\ \A t \in Syncs : FreeSync(t)
       /\ emitted = <<>>
       /\ StopCoordination
    \/ /\ activitiesAdded < MaxActivityAppends
       /\ \A t \in Syncs : FreeSync(t)
       /\ \E tm \in syncTimers : CoordTick(tm)
    \/ \E t \in Syncs : HealthSettles(t, "ok", ActivityDrawn, 1)

ActivitySpec == ActivityInit /\ [][ActivityNext]_vars

----------------------------------------------------------------------------
(* The coordination service started and its interval callbacks run with     *)
(* health checks in progress at once, any outcome of every health request   *)
(* and any discussion drawn                                                 *)

CoordSpecInit ==
    /\ FeedbackInit
    /\ hasToken = FALSE
    /\ ConvertedStorage
    /\ HistoryInit
    /\ CoordInit

\* the invocations of startCoordination and of the interval callback so far
CoordRuns == activitiesAdded + Cardinality({t \in Syncs : ~FreeSync(t)})

CoordNext ==
    \/ /\ CoordRuns < MaxCoordRuns
       /\ StartCoordination
    \/ /\ CoordRuns < MaxCoordRuns
       /\ \E tm \in syncTimers : CoordTick(tm)
    \/ \E t \in Syncs, outcome \in HealthOutcomes,
          discussion \in DOMAIN DiscussionCatalog :
          HealthSettles(t, outcome, 1, discussion)

CoordSpec == CoordSpecInit /\ [][CoordNext]_vars

----------------------------------------------------------------------------
(* The coordination service started and its interval callbacks run one      *)
(* after the other, with any outcome of every health request and any        *)
(* discussion drawn                                                         *)

HealthNext ==
    \/ /\ CoordRuns < MaxCoordRuns
       /\ StartCoordination
    \/ /\ CoordRuns < MaxCoordRuns
       /\ \A t \in Syncs : FreeSync(t)
       /\ \E tm \in syncTimers : CoordTick(tm)
    \/ \E t \in Syncs, outcome \in HealthOutcomes,
          discussion \in DOMAIN DiscussionCatalog :
          HealthSettles(t, outcome, 1, discussion)

HealthSpec == CoordSpecInit /\ [][HealthNext]_vars

----------------------------------------------------------------------------
(* The coordination service under any order of startCoordination,           *)
(* stopCoordination and interval callbacks, with health checks in progress  *)
(* at once; a pillar answers its health request or not; the first           *)
(* discussion of the catalog is drawn                                       *)

StopNext ==
    \/ /\ CoordRuns < MaxCoordRuns
       /\ StartCoordination
    \/ StopCoordination
    \/ /\ CoordRuns < MaxCoordRuns
       /\ \E tm \in syncTimers : CoordTick(tm)
    \/ \E t \in Syncs, outcome \in {"ok", "error"} :
          HealthSettles(t, outcome, 1, 1)

StopSpec == CoordSpecInit /\ [][StopNext]_vars

----------------------------------------------------------------------------
(* Claims about the scheduler, checked under Spec *)

\* C1: in every reachable state, under any interleaving of start(), timer
\* ticks and direct executeFeedbackCycle() calls, at most one FeedbackCycle
\* in the cycle map has status = active.
C1_AtMostOneActiveCycle == Cardinality(ActiveKeys) <= 1

\* C2: a tick that fires while some cycle is still active is skipped: it
\* starts no invocation of executeFeedbackCycle and the cycle count and the
\* cycle map stay as they were.
TickRuns ==
    \E tm \in timers, sameMs \in BOOLEAN, sel \in SpecSelections :
        Tick(tm, sameMs, sel)

C2_TickWhileActiveIsSkipped ==
    [][(ActiveKeys # {} /\ TickRuns) =>
          /\ Len(cycles') = Len(cycles)
          /\ activeCycles' = activeCycles
          /\ tasks' = tasks]_vars

\* C36: at most one periodic timer of each driver is scheduled at any time,
\* under any interleaving of start and stop calls, so one stop call cancels
\* every timer the driver has created.
C36_AtMostOneTimer ==
    /\ Cardinality(timers) <= 1
    /\ Cardinality(syncTimers) <= 1

\* C38: no cycle is lost or overwritten in the history: after n calls of
\* executeFeedbackCycle, getCycleHistory() holds the n distinct cycles created
\* and totalCycles is n.
C38_HistoryKeepsEveryCycle ==
    /\ Len(getCycleHistory) = Len(cycles)
    /\ {getCycleHistory[i] : i \in DOMAIN getCycleHistory} = DOMAIN cycles
    /\ getSystemMetrics.totalCycles = Len(cycles)

\* C14: the first cycle is numbered 1 and every later cycle has a sequence
\* number strictly greater than that of every cycle started before it, so no
\* two cycles share a sequence number.
C14_SequenceNumbersIncrease ==
    /\ Len(cycles) >= 1 => cycles[1].cycleNumber = 1
    /\ \A i, j \in DOMAIN cycles :
          i < j => cycles[i].cycleNumber < cycles[j].cycleNumber

\* C16: a failed cycle does not stop the scheduler: when a cycle has ended
\* in failed and start() has been called with no stop() since and is not
\* still awaiting its first cycle, the periodic timer is scheduled.
StartAwaits == \E t \in Passes : ~Free(t) /\ tasks[t].caller = "start"

C16_FailedCycleKeepsTimer ==
    (/\ isRunning
     /\ ~StartAwaits
     /\ \E c \in DOMAIN cycles : cycles[c].status = "failed")
        => (cycleInterval # 0 /\ cycleInterval \in timers)

\* C37: whenever no start() call is in progress (stop() is synchronous), the
\* isActive flag of the aggregate metrics is true if and only if the periodic
\* timer of the scheduler is scheduled, also after a start() whose first
\* cycle failed.
C37_RunningIffTimerScheduled ==
    ~StartAwaits => (getSystemMetrics.isActive <=> timers # {})

\* C17: no exception escapes a timer-driven tick: when a cycle throws, the
\* promise of the interval callback that runs it is not rejected.
C17_NoRejectedTick == ~unhandled

\* C18: once stop() has returned, no tick starts a feedback cycle until
\* start() is called again.
C18_NoTickAfterStop ==
    [][~isRunning => ~TickRuns]_vars

----------------------------------------------------------------------------
(* Claims about a cycle that throws or is stopped, checked under RunSpec *)

\* C15: when the code execution of the commit simulation throws, the cycle
\* ends with status failed and its end time set; a failed cycle has its end
\* time set and never changes again, so it never becomes completed.
C15_ThrowStep ==
    \A t \in Passes :
        CommitSettles(t, FALSE) =>
            /\ cycles'[tasks[t].cyc].status = "failed"
            /\ cycles'[tasks[t].cyc].ended

C15_FailedStays ==
    \A c \in DOMAIN cycles :
        cycles[c].status = "failed" => cycles'[c] = cycles[c]

C15_FailedEnded ==
    \A c \in DOMAIN cycles : cycles[c].status = "failed" => cycles[c].ended

C15_ThrowFailsCycle ==
    []C15_FailedEnded /\ [][C15_ThrowStep]_vars /\ [][C15_FailedStays]_vars

C15_Witness ==
    \E c \in DOMAIN cycles :
        /\ cycles[c].status = "failed"
        /\ c < Len(cycles)

\* C23: a throw of one code execution, during project materialization or
\* during commit simulation, fails that operation only: the cycle stays
\* active and its invocation goes on.
C23_ExecFailureStep ==
    \A t \in Passes :
        (ExecSettles(t, FALSE) \/ CommitSettles(t, FALSE)) =>
            /\ cycles'[tasks[t].cyc].status = "active"
            /\ ~Free(t)'

C23_ExecFailureDoesNotFailCycle == [][C23_ExecFailureStep]_vars

\* C20: stop() leaves every cycle in progress as it is, and a cycle that is
\* active when stop() has been called goes on to completed or failed.
C20_StopStep ==
    Stop => (tasks' = tasks /\ pass' = pass /\ cycles' = cycles)

C20_StopDoesNotAbort ==
    /\ [][C20_StopStep]_vars
    /\ \A c \in 1..MaxRunCycles :
          (Len(cycles) >= c /\ cycles[c].status = "active" /\ ~isRunning)
              ~> (Len(cycles) >= c /\ cycles[c].status \in {"completed", "failed"})

\* stop() is called under RunSpec only while a cycle is active, and only
\* start() sets isRunning: the one cycle was active when stop() was called
C20_Witness ==
    /\ ~isRunning
    /\ Len(cycles) = 1
    /\ cycles[1].status = "completed"
    /\ cycles[1].commitsGenerated > 0

----------------------------------------------------------------------------
(* Claims about calls that stay pending, checked under StallSpec *)

\* C22: no collaborator call blocks the driver for ever: every cycle that
\* becomes active reaches completed or failed, also when a collaborator call
\* never responds.
C22_EveryCycleEnds ==
    \A c \in 1..MaxRunCycles :
        (Len(cycles) >= c /\ cycles[c].status = "active")
            ~> (Len(cycles) >= c /\ cycles[c].status # "active")

----------------------------------------------------------------------------
(* Claims about cycles that have ended, checked under EndedSpec *)

\* the fields of a FeedbackCycle
CycleFields(cycle) ==
    <<cycle.cycleNumber, cycle.status, cycle.ended, cycle.repositoriesCreated,
      cycle.commitsGenerated, cycle.newOpportunitiesDetected,
      cycle.feedbackScore>>

\* C34: once the status of a FeedbackCycle is completed or failed, no step
\* (the metric write settling, a later tick, stop, start) changes its status,
\* end time, counters, repository list or feedbackScore.
C34_EndedCycleImmutable ==
    [][\A c \in DOMAIN cycles :
          cycles[c].status # "active" =>
              /\ c \in DOMAIN cycles'
              /\ CycleFields(cycles'[c]) = CycleFields(cycles[c])]_vars

\* the metric write of the first cycle has failed, the scheduler has been
\* stopped and a later cycle has ended too
C34_Witness ==
    /\ Len(cycles) = 2
    /\ cycles[1].status = "completed"
    /\ cycles[1].metricFailed
    /\ cycles[2].status = "failed"
    /\ ~isRunning
    /\ \A t \in Passes : Free(t)

----------------------------------------------------------------------------
(* Claims about one cycle, checked under CycleSpec *)

\* the opportunities of sel whose createRealRepository call succeeded, in order
Successes(sel, oks) ==
    SelectSeq(sel, LAMBDA x : \E i \in DOMAIN oks : sel[i] = x /\ oks[i])

\* the items of task whose activity entry has been pushed
Pushed(task) ==
    CASE task.pc = "auth" -> 0
      [] task.pc = "repo" -> task.i - 1
      [] task.pc = "exec" -> task.i
      [] OTHER -> Len(task.sel)

\* C24: a failed repository creation or a failed GitHub authentication does
\* not fail the cycle; one RepositoryActivity entry is appended for every
\* detected opportunity whatever the external outcome; repositoriesCreated
\* holds the successful creations only, in order, so it is never longer
\* than the number of opportunities detected.
C24_CreateFailureStep ==
    \A t \in Passes :
        (AuthSettles(t, FALSE) \/ RepoSettles(t, FALSE)) =>
            /\ cycles'[tasks[t].cyc].status = "active"
            /\ ~Free(t)'

C24_Recorded ==
    /\ \A t \in Passes :
          ~Free(t) =>
              LET task == tasks[t]
                  cycle == cycles[task.cyc]
              IN  /\ Len(repositoryActivities) = Pushed(task)
                  /\ \A j \in 1..Pushed(task) :
                        repositoryActivities[j] = Activity(task.sel[j])
                  /\ task.pc \in {"auth", "repo", "exec", "convert"} =>
                        cycle.status = "active"
                  /\ task.pc \in {"convert", "commit", "store"} =>
                        /\ cycle.repositoriesCreated = Successes(task.sel, task.repoOk)
                        /\ ~task.authed => cycle.repositoriesCreated = <<>>
    /\ \A c \in DOMAIN cycles :
          Len(cycles[c].repositoriesCreated) <= cycles[c].newOpportunitiesDetected
    /\ (cycles # <<>> /\ \A t \in Passes : Free(t)) =>
          Len(repositoryActivities) = cycles[1].newOpportunitiesDetected

C24_RepositoryOutcomeRecorded ==
    []C24_Recorded /\ [][C24_CreateFailureStep]_vars

C24_Witness ==
    /\ cycles # <<>>
    /\ cycles[1].status = "completed"
    /\ cycles[1].repositoriesCreated = <<1, 3>>
    /\ Len(repositoryActivities) = 3

\* C25: in every reachable state the feedbackScore of every cycle, active,
\* completed or failed, is an integer from 0 to 100.
C25_ScoreInRange ==
    \A c \in DOMAIN cycles : cycles[c].feedbackScore \in 0..100

C25_Witness ==
    \E c \in DOMAIN cycles :
        /\ cycles[c].status = "completed"
        /\ Len(cycles[c].repositoriesCreated) = 4
        /\ cycles[c].commitsGenerated = 7
        /\ cycles[c].feedbackScore = 90

\* C35: a metric record is written only for a cycle that ended completed:
\* one createMetric call per completed cycle, none for an active or failed
\* one; and when that call fails the cycle stays completed.
C35_MetricCalls ==
    \A c \in DOMAIN cycles :
        cycles[c].metricWrites = IF cycles[c].status = "completed" THEN 1 ELSE 0

C35_MetricFailureStep ==
    \A t \in Passes :
        StoreSettles(t, FALSE) =>
            /\ cycles[tasks[t].cyc].status = "completed"
            /\ cycles'[tasks[t].cyc].status = "completed"

C35_MetricOnlyForCompleted ==
    []C35_MetricCalls /\ [][C35_MetricFailureStep]_vars

C35_Witness ==
    /\ Len(cycles) = 1
    /\ cycles[1].status = "completed"
    /\ cycles[1].metricWrites = 1
    /\ cycles[1].metricFailed
    /\ \A t \in Passes : Free(t)

\* C26: the score of a completed cycle includes the completion bonus:
\* min(100, 10*min(repos, 4) + 5*min(commits, 6) + 5*min(detected, 4) + 10).
C26_CompletedScoreHasBonus ==
    \A c \in DOMAIN cycles :
        cycles[c].status = "completed" =>
            cycles[c].feedbackScore =
                Min(100, 10 * Min(Len(cycles[c].repositoriesCreated), 4)
                         + 5 * Min(cycles[c].commitsGenerated, 6)
                         + 5 * Min(cycles[c].newOpportunitiesDetected, 4)
                         + 10)

\* C27: Detect selects 2 or 3 distinct items of the candidate list, so the
\* number of opportunities detected of every cycle is 2 or 3.
C27_DetectsTwoOrThree ==
    \A c \in DOMAIN cycles : cycles[c].newOpportunitiesDetected \in {2, 3}

----------------------------------------------------------------------------
(* Claims about one cycle whose collaborators all succeed, checked under    *)
(* E2ESpec                                                                  *)

\* C28: one cycle run from idle, with a storage whose opportunities are all
\* detected and every collaborator succeeding, ends in status completed with
\* every opportunity converted and exactly one Service per opportunity.
C28_EndToEnd ==
    \A c \in DOMAIN cycles :
        cycles[c].status # "active" =>
            /\ cycles[c].status = "completed"
            /\ \A o \in OppIds : opportunities[o].status = "converted"
            /\ Len(services) = NumOpps
            /\ \A o \in OppIds : Cardinality(ServicesOf(o)) = 1

C28_Witness ==
    /\ Len(cycles) = 1
    /\ cycles[1].status = "completed"
    /\ Len(services) = NumOpps
    /\ \A t \in Passes : Free(t)

----------------------------------------------------------------------------
(* Claims about the repository activity log, checked under LogSpec *)

\* C9: the RepositoryActivity log never holds more than 20 entries: the
\* stored log is its own 20 most recently appended entries.
C9_RepositoryActivityLogCapped ==
    /\ Len(repositoryActivities) <= RepositoryActivityCap
    /\ repositoryActivities = getRepositoryActivities

----------------------------------------------------------------------------
(* Claims about the converter, checked under ConvSpec *)

NoFailure == ~storageFailed
Sequential == ~overlapped

\* C3: for every Opportunity, after any sequence of conversion passes in
\* which storage writes may fail, at most one Service record with that
\* opportunityId exists.
C3_AtMostOneServiceDespiteFailures ==
    Sequential => \A o \in OppIds : Cardinality(ServicesOf(o)) <= 1

\* C4: conversion passes run in sequence with no storage failure create
\* exactly one Service and perform exactly one detected -> converted change
\* per opportunity detected before the first pass; a pass after the first
\* one attempts and converts nothing.
C4_SequentialPassesConvertOnce ==
    (NoFailure /\ Sequential) =>
        /\ \A o \in OppIds : Cardinality(ServicesOf(o)) <= 1
        /\ \A p \in Passes : p > 1 => pass[p].attempted = {} /\ pass[p].converted = {}
        /\ (\E p \in Passes : pass[p].pc = "returned") =>
              \A o \in detected0 :
                  /\ Cardinality(ServicesOf(o)) = 1
                  /\ flips[o] = 1
                  /\ opportunities[o].status = "converted"

C4_Witness ==
    /\ NoFailure /\ Sequential
    /\ detected0 # {}
    /\ \A p \in Passes : pass[p].pc = "returned"

\* C5: when two conversion passes overlap in time, each detected Opportunity
\* still yields exactly one Service record.
C5_OverlappingPassesOneService ==
    NoFailure => \A o \in OppIds : Cardinality(ServicesOf(o)) <= 1

\* C6: an Opportunity has status converted only if a Service with its
\* opportunityId exists, and a pass issues updateOpportunity for an item
\* only after its own createService for that item has succeeded.
C6_ConvertedOnlyAfterServiceCreated ==
    /\ \A o \in OppIds :
          opportunities[o].status = "converted" => ServicesOf(o) # {}
    /\ \A p \in Passes : pass[p].updIssued \subseteq pass[p].created

C6_Witness ==
    \E o \in detected0 : opportunities[o].status = "converted"

\* C7: if createService fails for a detected Opportunity, the failing step
\* leaves every status as it was and ends the pass with no updateOpportunity
\* issued for that item; a pass that lists the opportunities afterwards and
\* still reads the item as detected calls createService for it again.
C7_CreateFailureStep ==
    \A p \in Passes :
        (pass[p].failWrite = "none" /\ pass'[p].failWrite = "createService") =>
            /\ opportunities' = opportunities
            /\ pass'[p].pc = "returned"
            /\ pass'[p].failOpp \notin pass'[p].updIssued

C7_Retried ==
    \A p \in Passes :
        /\ pass[p].failWrite = "createService" =>
              pass[p].failOpp \notin pass[p].updIssued
        /\ \A o \in pass[p].seenFailed :
              (pass[p].snap # <<>> /\ pass[p].snap[o].status = "detected") =>
                  o \in pass[p].attempted

C7_CreateFailureLeavesDetectedAndRetried ==
    []C7_Retried /\ [][C7_CreateFailureStep]_vars

C7_Witness ==
    \E p \in Passes : \E o \in pass[p].seenFailed :
        o \in pass[p].attempted /\ opportunities[o].status = "converted"

\* C8: a storage write failure while converting one Opportunity aborts only
\* that item: every detected Opportunity later in the list is still
\* converted in the same pass.
C8_FailureAbortsOnlyTheItem ==
    \A p \in Passes :
        (pass[p].pc = "returned" /\ pass[p].failOpp # 0) =>
            \A o \in OppIds :
                (o > pass[p].failOpp /\ pass[p].snap[o].status = "detected") =>
                    o \in pass[p].converted

----------------------------------------------------------------------------
(* Claims about the message buffer, checked under BufferSpec *)

\* C10: activeDiscussions never holds more than 50 entries, and after k
\* appended messages it holds the last min(k, 50) of them in insertion order.
C10_DiscussionsKeepLast50 ==
    /\ Len(activeDiscussions) <= DiscussionCap
    /\ Len(activeDiscussions) = Min(messagesSent, DiscussionCap)
    /\ \A i \in 1..Len(activeDiscussions) :
          activeDiscussions[i].seq = messagesSent - Len(activeDiscussions) + i

C10_Witness ==
    /\ messagesSent >= DiscussionCap + 5
    /\ Len(activeDiscussions) = DiscussionCap

----------------------------------------------------------------------------
(* Claims about the automation level, checked under AutomationSpec *)

\* the two letters are the same, whatever their case
SameLetter(a, b) ==
    \/ a = b
    \/ \E n \in DOMAIN UpperCaseLetters :
          {a, b} = {UpperCaseLetters[n], LowerCaseLetters[n]}

\* the title contains the word, case-insensitive
Contains(title, word) ==
    \E i \in 0..(Len(title) - Len(word)) :
        \A j \in 1..Len(word) : SameLetter(title[i + j], word[j])

\* the number that a sequence of digits writes
RECURSIVE NumberOf(_)
NumberOf(str) ==
    IF str = <<>> THEN 0
    ELSE 10 * NumberOf(SubSeq(str, 1, Len(str) - 1))
         + (CHOOSE d \in 0..9 : Digits[d + 1] = str[Len(str)])

AutomationScore(opportunity) ==
    50 + (IF opportunity.estimatedValue > 10000 THEN 20 ELSE 0)
       + (IF opportunity.confidence > 90 THEN 15 ELSE 0)
       + (IF Contains(opportunity.title,
                      <<"a", "u", "t", "o", "m", "a", "t", "i", "o", "n">>)
          THEN 25 ELSE 0)
       + (IF Contains(opportunity.title, <<"a", "i">>) THEN 20 ELSE 0)

\* C33: the automation level stored on the Service of every opportunity is
\* min(100, 50 + 20 if estimatedValue > 10000 + 15 if confidence > 90 + 25 if
\* the title contains 'automation' + 20 if the title contains 'ai', both
\* case-insensitive), and lies between 0 and 100.
C33_AutomationLevel ==
    \A i \in DOMAIN services :
        LET opportunity == opportunities[services[i].opportunityId]
            level == NumberOf(services[i].automationLevel)
        IN  /\ level \in 0..100
            /\ level = IF AutomationScore(opportunity) > 100
                       THEN 100 ELSE AutomationScore(opportunity)

\* every opportunity has its Service; the level of one is the base alone,
\* the score of another goes over 100
C33_Witness ==
    /\ Len(services) = NumOpps
    /\ \E i \in DOMAIN services : NumberOf(services[i].automationLevel) = 50
    /\ \E i \in DOMAIN services :
          /\ AutomationScore(opportunities[services[i].opportunityId]) = 130
          /\ services[i].automationLevel = <<"1", "0", "0">>

----------------------------------------------------------------------------
(* Claims about the activity buffer, checked under ActivitySpec *)

\* C11: systemActivities never holds more than 100 entries, and after k
\* records appended by startCoordination calls and coordination ticks it
\* holds the last min(k, 100) of them in insertion order.
C11_ActivitiesKeepLast100 ==
    /\ Len(systemActivities) <= SystemActivityCap
    /\ Len(systemActivities) = Min(activitiesAdded, SystemActivityCap)
    /\ \A i \in 1..Len(systemActivities) :
          LET k == activitiesAdded - Len(systemActivities) + i
          IN  /\ systemActivities[i].seq = k
              /\ systemActivities[i].pillar =
                     ActivityCatalog[((k - 1) % Len(ActivityCatalog)) + 1].pillar

C11_Witness ==
    /\ activitiesAdded >= SystemActivityCap + 3
    /\ Len(systemActivities) = SystemActivityCap
    /\ messagesSent > 0

\* the health request of the last pillar of a tick is answered ok
TickEnds(t) ==
    /\ syncs[t].caller = "tick"
    /\ syncs[t].idx = Len(PillarKeys)
    /\ \E activity \in DOMAIN ActivityCatalog,
          discussion \in DOMAIN DiscussionCatalog :
           HealthSettles(t, "ok", activity, discussion)

\* C31: with the three pillars all reachable, a coordination tick ends with
\* a health score of 100 and with at least one message appended to
\* activeDiscussions.
C31_ReachableTick ==
    [][\A t \in Syncs :
          TickEnds(t) =>
              /\ emitted'.coordination_health = 100
              /\ emitted'.system_status = [k \in Pillars |-> "online"]
              /\ messagesSent' > messagesSent
              /\ activeDiscussions' # <<>>
              /\ activeDiscussions'[Len(activeDiscussions')].seq = messagesSent']_vars

\* the first tick has ended: the three messages of exchangePillarData and
\* the discussion drawn have been appended
C31_Witness ==
    /\ emitted # <<>>
    /\ emitted.coordination_health = 100
    /\ emitted.active_discussions = 4
    /\ messagesSent = 4
    /\ \A t \in Syncs : FreeSync(t)

----------------------------------------------------------------------------
(* Claims about the message exchange, checked under CoordSpec *)

\* an interval callback of the service runs
CoordTickRuns == \E tm \in syncTimers : CoordTick(tm)

\* the messages that a step appends to activeDiscussions
Appended ==
    {activeDiscussions'[i] : i \in {j \in DOMAIN activeDiscussions' :
                                     activeDiscussions'[j].seq > messagesSent}}

\* C12: a message is appended to activeDiscussions only if its target
\* pillar is online at the moment of the append; a message addressed to an
\* offline or degraded pillar is dropped, whatever health checks and ticks
\* overlap.
C12_AppendOnlyToOnlineTarget ==
    [][\A m \in Appended : pillars'[m.target] = "online"]_vars

C12_Witness ==
    /\ emitted # <<>>
    /\ messagesSent = 1
    /\ \E k \in Pillars : pillars[activeDiscussions[1].target] = "online"
                           /\ pillars[k] = "degraded"
    /\ \E k \in Pillars : pillars[k] = "offline"

\* the pillars a message is exchanged between: the source and the target of
\* a discussion of the catalog, the two pillars of lines 167-191, the hub of
\* lines 153-165
Endpoints(m) ==
    CASE m.type = "discussion" ->
           UNION {{DiscussionCatalog[d].source, DiscussionCatalog[d].target} :
                    d \in {e \in DOMAIN DiscussionCatalog :
                             DiscussionCatalog[e].target = m.target}}
      [] m.type \in {"ecosystem_update", "mining_data"} -> {"ecosystem", "dao"}
      [] OTHER -> {m.target}

\* C13: every pair-wise message of a coordination tick, the synthetic
\* discussion included, is appended only when both its source pillar and
\* its target pillar are online.
C13_AppendOnlyBetweenOnlinePillars ==
    [][\A m \in Appended : \A k \in Endpoints(m) : pillars'[k] = "online"]_vars

\* C39: every pillar starts offline, so activeDiscussions stays empty until
\* a health check has set a pillar online: when the buffer is not empty, a
\* settled health request has observed some pillar online.
C39_NoMessageBeforeOnline ==
    /\ (activeDiscussions # <<>> \/ messagesSent > 0) => onlineObserved
    /\ ~onlineObserved => \A k \in Pillars : pillars[k] # "online"

\* a message was appended while its target was online; later health
\* requests have taken every pillar off line and the message is still there
C39_Witness ==
    /\ activitiesAdded >= 2
    /\ onlineObserved
    /\ messagesSent = 1
    /\ \A k \in Pillars : pillars[k] # "online"

----------------------------------------------------------------------------
(* Claims about the health score, checked under CoordSpec *)

\* round(100 * n / total), a half rounded up as Math.round does
RoundedPercent(n, total) ==
    CHOOSE r \in 0..100 :
        /\ 2 * total * r - total <= 200 * n
        /\ 200 * n < 2 * total * r + total

OnlineIn(status) == Cardinality({k \in DOMAIN status : status[k] = "online"})

\* C32: in every emitted status snapshot and every getSystemStatus() result
\* the health score is round(100 * online pillars / pillars) over the
\* statuses of that same snapshot: 0, 33, 67 or 100 for the three pillars.
C32_HealthScoreIsRoundedShare ==
    /\ emitted # <<>> =>
          /\ emitted.coordination_health =
                 RoundedPercent(OnlineIn(emitted.system_status), Len(PillarKeys))
          /\ emitted.coordination_health \in {0, 33, 67, 100}
    /\ getSystemStatus.health_score =
           RoundedPercent(OnlineIn(getSystemStatus.pillars), Len(PillarKeys))
    /\ getSystemStatus.health_score \in {0, 33, 67, 100}

\* a snapshot emitted with two pillars online, read when one is online
C32_Witness ==
    /\ emitted # <<>>
    /\ OnlineIn(emitted.system_status) = 2
    /\ emitted.coordination_health = 67
    /\ OnlineIn(getSystemStatus.pillars) = 1
    /\ getSystemStatus.health_score = 33

----------------------------------------------------------------------------
(* Claims about the health check, checked under HealthSpec *)

\* C29: whatever the status of a pillar was, the health request of that
\* pillar sets it to online and assigns lastSync when the response is ok, to
\* degraded when the response is not ok, to offline when the request fails
\* or times out; only an ok response assigns lastSync.
HealthStep(t, outcome) ==
    \E activity \in DOMAIN ActivityCatalog,
       discussion \in DOMAIN DiscussionCatalog :
        HealthSettles(t, outcome, activity, discussion)

C29_HealthStep ==
    \A t \in Syncs :
        LET key == PillarKeys[syncs[t].idx]
        IN  /\ HealthStep(t, "ok") =>
                  pillars'[key] = "online" /\ lastSyncAssigned' = key
            /\ HealthStep(t, "bad") =>
                  pillars'[key] = "degraded" /\ lastSyncAssigned' = "none"
            /\ HealthStep(t, "error") =>
                  pillars'[key] = "offline" /\ lastSyncAssigned' = "none"

C29_StatusFollowsHealthResponse == [][C29_HealthStep]_vars

\* the hub was online when the last tick ended and a response that is not ok
\* has made it degraded; the request of the ecosystem pillar, offline when
\* the last tick ended, was then answered ok
C29_Witness ==
    /\ emitted # <<>>
    /\ emitted.system_status["hub"] = "online"
    /\ emitted.system_status["ecosystem"] = "offline"
    /\ pillars["hub"] = "degraded"
    /\ pillars["ecosystem"] = "online"
    /\ lastSyncAssigned = "ecosystem"

\* C30: checkAllPillarsHealth never throws: a health request that fails or
\* times out sets its pillar offline and the same invocation goes on to the
\* next pillar, and after the last pillar returns to its caller, which goes
\* on.
C30_FailureStep ==
    \A t \in Syncs :
        HealthStep(t, "error") =>
            /\ pillars'[PillarKeys[syncs[t].idx]] = "offline"
            /\ syncs[t].idx < Len(PillarKeys) =>
                  syncs'[t] = [syncs[t] EXCEPT !.idx = @ + 1]
            /\ syncs[t].idx = Len(PillarKeys) =>
                  /\ syncs'[t] = IdleSync
                  /\ activitiesAdded' = activitiesAdded + 1

C30_FailureIsAbsorbed == [][C30_FailureStep]_vars

\* the request of the hub, online when the last tick ended, has failed; the
\* one invocation in progress has gone on: the ecosystem pillar, online when
\* the last tick ended, was then answered not ok and the request of the dao
\* pillar is pending
C30_Witness ==
    /\ emitted # <<>>
    /\ emitted.system_status["hub"] = "online"
    /\ emitted.system_status["ecosystem"] = "online"
    /\ pillars["hub"] = "offline"
    /\ pillars["ecosystem"] = "degraded"
    /\ \E t \in Syncs :
          /\ syncs[t] = [pc |-> "health", caller |-> "tick", idx |-> Len(PillarKeys)]
          /\ \A u \in Syncs \ {t} : FreeSync(u)

----------------------------------------------------------------------------
(* Claims about stopping the coordination service, checked under StopSpec *)

\* C19: once stopCoordination() has returned, no coordination tick starts
\* until startCoordination() is called again.
C19_NoTickAfterStopCoordination ==
    [][~isCoordinating => ~CoordTickRuns]_vars

\* C21: the coordination driver serializes its ticks: no interval callback
\* starts a coordination tick while a tick started by an earlier callback is
\* still running.
TickInProgress == \E t \in Syncs : ~FreeSync(t) /\ syncs[t].caller = "tick"

C21_CoordTicksSerialized ==
    [][TickInProgress => ~CoordTickRuns]_vars

====
